---- MODULE Spec2Model ----
(***************************************************************************)
(* Delegated allowance subsystem of the cw20-base contract                 *)
(* (contracts/cw20-base/src/allowances.rs).                                *)
(*                                                                         *)
(* The contract's storage is four maps: ALLOWANCES keyed (owner, spender), *)
(* ALLOWANCES_SPENDER keyed (spender, owner), BALANCES keyed by account    *)
(* and the TOKEN_INFO item.  A map is a function whose DOMAIN is the set   *)
(* of stored keys.  Every handler is an operator from a storage value to a *)
(* HandlerResult: the storage as the handler left it when it returned      *)
(* (writes made before an error are still in it), the Result it returned   *)
(* and the messages of its Response.  The execution environment runs one   *)
(* handler per transaction and keeps its writes only when the transaction  *)
(* as a whole succeeds.                                                    *)
(***************************************************************************)
EXTENDS Integers, Sequences, FiniteSets, TLC

VARIABLES
    ALLOWANCES,          \* Map<(&Addr, &Addr), AllowanceResponse>, keyed (owner, spender)
    ALLOWANCES_SPENDER,  \* Map<(&Addr, &Addr), AllowanceResponse>, keyed (spender, owner)
    BALANCES,            \* Map<&Addr, Uint128>
    TOKEN_INFO,          \* Item<TokenInfo>, of which total_supply
    block,               \* env.block of the next call
    call,                \* the last call: its message, info.sender and env.block; NoCall once
                         \* its outcome has been observed
    response,            \* the outcome of the last call, the messages of its Response and, for
                         \* a query, the value it returned
    before,              \* the storage as it was when the last call began
    increases,           \* the run of successful increase_allowance calls that ends with the last call
    ops,                 \* number of calls made
    granted,             \* per (owner, spender): the sum of the amounts of the successful
                         \* increase_allowance calls
    spent,               \* per (owner, spender): the sum of the amounts of the successful
                         \* transfer_from, burn_from and send_from calls
    emptied,             \* the grant that an observed call last emptied: its key, whether a
                         \* decrease removed it or a spend brought it to zero, its expiration
    tokens,              \* cw2981-royalties: token_id -> the Metadata extension of the token
    royalty              \* cw2981-royalties: the last RoyaltyInfo query and its response

\* The history of the grants, and the storage and observations of the royalties contract.
totals == <<granted, spent, emptied>>
nft == <<tokens, royalty>>

vars == <<ALLOWANCES, ALLOWANCES_SPENDER, BALANCES, TOKEN_INFO, block, call, response, before,
          increases, ops, granted, spent, emptied, tokens, royalty>>

(***************************************************************************)
(* Bounds of the model.                                                    *)
(***************************************************************************)
\* Largest value of the unsigned integer type of amounts (Uint128, scaled down).
MaxUint == 3
\* Amount arguments of the calls are drawn from 0..MaxAmount.
MaxAmount == 2
\* Block heights run over 1..MaxHeight.
MaxHeight == 2
\* Balance minted to the first account at instantiation.
InitBalance == 1
\* A run is at most this many calls: a grant, a second call and a third.
MaxOps == Len(<<"first", "second", "third">>)

Addr == {"addr0001", "addr0002", "addr0003"}
\* The accounts that make calls and are named as owner or spender in them; every
\* account of Recipients is named as recipient or receiving contract.
Parties == {"addr0001", "addr0002"}
Recipients == {"addr0001", "addr0003"}
Amounts == 0..MaxAmount
Payloads == {"m1", "m2"}

\* env.block at a height: the time of a block differs from its height.
BlockAt(h) == [height |-> h, time |-> 10 * h]

(***************************************************************************)
(* Expiration and Option values.  None is <<>>, Some(x) is <<x>>.          *)
(***************************************************************************)
Never == [kind |-> "Never", at |-> 0]
AtHeight(h) == [kind |-> "AtHeight", at |-> h]
AtTime(t) == [kind |-> "AtTime", at |-> t]

\* The expires arguments of the calls: none, Never, the heights of the blocks
\* and the time of the last block.
Expirations ==
    {Never} \cup {AtHeight(h) : h \in 1..MaxHeight} \cup {AtTime(BlockAt(MaxHeight).time)}
OptExpirations == {<<>>} \cup {<<e>> : e \in Expirations}

None == <<>>
Some(x) == <<x>>

\* Expiration::is_expired(&self, block)
is_expired(exp, blk) ==
    CASE exp.kind = "AtHeight" -> blk.height >= exp.at
      [] exp.kind = "AtTime" -> blk.time >= exp.at
      [] OTHER -> FALSE

\* AllowanceResponse::default()
AllowanceDefault == [allowance |-> 0, expires |-> Never]

(***************************************************************************)
(* Results.  A closure or a checked operation yields Ok(v) or Err(e); a    *)
(* panic (arithmetic overflow of the + operator of Uint128) is the error   *)
(* "Panic", which aborts the transaction like any other error.             *)
(***************************************************************************)
Ok(v) == [ok |-> TRUE, err |-> "Ok", val |-> <<v>>]
Err(e) == [ok |-> FALSE, err |-> e, val |-> <<>>]
Val(r) == r.val[1]

\* Uint128::checked_sub
checked_sub(a, b) == IF b > a THEN Err("Overflow") ELSE Ok(a - b)
\* Uint128 + Uint128 (and +=): panics on overflow
add(a, b) == IF a + b > MaxUint THEN Err("Panic") ELSE Ok(a + b)

(***************************************************************************)
(* cw_storage_plus::Map                                                    *)
(***************************************************************************)
may_load(m, k) == IF k \in DOMAIN m THEN Some(m[k]) ELSE None
save(m, k, v) == [x \in (DOMAIN m) \cup {k} |-> IF x = k THEN v ELSE m[x]]
remove(m, k) == [x \in (DOMAIN m) \ {k} |-> m[x]]
EmptyMap == [x \in {} |-> 0]

Storage == [ALLOWANCES |-> ALLOWANCES, ALLOWANCES_SPENDER |-> ALLOWANCES_SPENDER,
            BALANCES |-> BALANCES, TOKEN_INFO |-> TOKEN_INFO]

HandlerResult(s, r, m) == [storage |-> s, result |-> r, messages |-> m]

unwrap_or_default(opt, d) == IF opt = None THEN d ELSE opt[1]

(***************************************************************************)
(* execute_increase_allowance                                              *)
(***************************************************************************)
\* Faulty variant: the amount replaces the allowance instead of being added to it.
increase_update_fn_overwrites(allow, blk, amount, expires) ==
    LET val == unwrap_or_default(allow, AllowanceDefault)
    IN  IF expires # None /\ is_expired(expires[1], blk)
        THEN Err("InvalidExpiration")
        ELSE Ok([allowance |-> amount,
                 expires |-> IF expires # None THEN expires[1] ELSE val.expires])

\* Faulty variant: an expires argument that has already elapsed is accepted.
increase_update_fn_accepts_elapsed(allow, blk, amount, expires) ==
    LET val == unwrap_or_default(allow, AllowanceDefault)
        val1 == IF expires # None THEN [val EXCEPT !.expires = expires[1]] ELSE val
        sum == add(val1.allowance, amount)
    IN  IF sum.ok THEN Ok([val1 EXCEPT !.allowance = Val(sum)]) ELSE sum

\* Faulty variant: the expires argument is applied only to a grant that is new.
increase_update_fn_keeps_expiry(allow, blk, amount, expires) ==
    LET val == unwrap_or_default(allow, AllowanceDefault)
    IN  IF expires # None /\ is_expired(expires[1], blk)
        THEN Err("InvalidExpiration")
        ELSE LET val1 == IF expires # None /\ allow = None
                         THEN [val EXCEPT !.expires = expires[1]] ELSE val
                 sum == add(val1.allowance, amount)
             IN  IF sum.ok THEN Ok([val1 EXCEPT !.allowance = Val(sum)]) ELSE sum

\* Faulty variant: without an expires argument a grant that has elapsed is made to never expire.
increase_update_fn_revives_expired(allow, blk, amount, expires) ==
    LET val == unwrap_or_default(allow, AllowanceDefault)
    IN  IF expires # None /\ is_expired(expires[1], blk)
        THEN Err("InvalidExpiration")
        ELSE LET val1 == IF expires # None THEN [val EXCEPT !.expires = expires[1]]
                         ELSE IF is_expired(val.expires, blk) THEN [val EXCEPT !.expires = Never]
                         ELSE val
                 sum == add(val1.allowance, amount)
             IN  IF sum.ok THEN Ok([val1 EXCEPT !.allowance = Val(sum)]) ELSE sum

\* Faulty variant: a grant whose amount is zero is taken for no grant.
increase_update_fn_restarts_at_zero(allow, blk, amount, expires) ==
    LET stored == unwrap_or_default(allow, AllowanceDefault)
        val == IF stored.allowance = 0 THEN AllowanceDefault ELSE stored
    IN  IF expires # None /\ is_expired(expires[1], blk)
        THEN Err("InvalidExpiration")
        ELSE LET val1 == IF expires # None THEN [val EXCEPT !.expires = expires[1]] ELSE val
                 sum == add(val1.allowance, amount)
             IN  IF sum.ok THEN Ok([val1 EXCEPT !.allowance = Val(sum)]) ELSE sum

\* The update closure of execute_increase_allowance.
increase_update_fn(allow, blk, amount, expires) ==
    LET val == unwrap_or_default(allow, AllowanceDefault)
    IN  IF expires # None /\ is_expired(expires[1], blk)
        THEN Err("InvalidExpiration")
        ELSE LET val1 == IF expires # None THEN [val EXCEPT !.expires = expires[1]] ELSE val
                 sum == add(val1.allowance, amount)
             IN  IF sum.ok THEN Ok([val1 EXCEPT !.allowance = Val(sum)]) ELSE sum

\* Faulty variant: the reverse index is updated under the key of the primary store.
execute_increase_allowance_unreversed_key(S, blk, sender, spender, amount, expires) ==
    IF spender = sender
    THEN HandlerResult(S, "CannotSetOwnAccount", <<>>)
    ELSE LET r1 == increase_update_fn(may_load(S.ALLOWANCES, <<sender, spender>>), blk, amount, expires)
             S1 == [S EXCEPT !.ALLOWANCES = save(@, <<sender, spender>>, Val(r1))]
             r2 == increase_update_fn(may_load(S1.ALLOWANCES_SPENDER, <<sender, spender>>), blk, amount, expires)
             S2 == [S1 EXCEPT !.ALLOWANCES_SPENDER = save(@, <<sender, spender>>, Val(r2))]
         IN  IF ~r1.ok THEN HandlerResult(S, r1.err, <<>>)
             ELSE IF ~r2.ok THEN HandlerResult(S1, r2.err, <<>>)
             ELSE HandlerResult(S2, "Ok", <<>>)

\* Faulty variant: the two keys are swapped, so that the caller is taken for the spender.
execute_increase_allowance_swapped_key(S, blk, sender, spender, amount, expires) ==
    IF spender = sender
    THEN HandlerResult(S, "CannotSetOwnAccount", <<>>)
    ELSE LET r1 == increase_update_fn(may_load(S.ALLOWANCES, <<spender, sender>>), blk, amount, expires)
             S1 == [S EXCEPT !.ALLOWANCES = save(@, <<spender, sender>>, Val(r1))]
             r2 == increase_update_fn(may_load(S1.ALLOWANCES_SPENDER, <<sender, spender>>), blk, amount, expires)
             S2 == [S1 EXCEPT !.ALLOWANCES_SPENDER = save(@, <<sender, spender>>, Val(r2))]
         IN  IF ~r1.ok THEN HandlerResult(S, r1.err, <<>>)
             ELSE IF ~r2.ok THEN HandlerResult(S1, r2.err, <<>>)
             ELSE HandlerResult(S2, "Ok", <<>>)

\* Faulty variant: the spender is not compared with the sender.
execute_increase_allowance_allows_self(S, blk, sender, spender, amount, expires) ==
    LET r1 == increase_update_fn(may_load(S.ALLOWANCES, <<sender, spender>>), blk, amount, expires)
        S1 == [S EXCEPT !.ALLOWANCES = save(@, <<sender, spender>>, Val(r1))]
        r2 == increase_update_fn(may_load(S1.ALLOWANCES_SPENDER, <<spender, sender>>), blk, amount, expires)
        S2 == [S1 EXCEPT !.ALLOWANCES_SPENDER = save(@, <<spender, sender>>, Val(r2))]
    IN  IF ~r1.ok THEN HandlerResult(S, r1.err, <<>>)
        ELSE IF ~r2.ok THEN HandlerResult(S1, r2.err, <<>>)
        ELSE HandlerResult(S2, "Ok", <<>>)

\* Faulty variant: the amount granted is taken out of the balance of the owner.
execute_increase_allowance_escrows(S, blk, sender, spender, amount, expires) ==
    IF spender = sender
    THEN HandlerResult(S, "CannotSetOwnAccount", <<>>)
    ELSE LET r1 == increase_update_fn(may_load(S.ALLOWANCES, <<sender, spender>>), blk, amount, expires)
             S1 == [S EXCEPT !.ALLOWANCES = save(@, <<sender, spender>>, Val(r1))]
             r2 == increase_update_fn(may_load(S1.ALLOWANCES_SPENDER, <<spender, sender>>), blk, amount, expires)
             S2 == [S1 EXCEPT !.ALLOWANCES_SPENDER = save(@, <<spender, sender>>, Val(r2))]
             r3 == checked_sub(unwrap_or_default(may_load(S2.BALANCES, sender), 0), amount)
             S3 == [S2 EXCEPT !.BALANCES = save(@, sender, Val(r3))]
         IN  IF ~r1.ok THEN HandlerResult(S, r1.err, <<>>)
             ELSE IF ~r2.ok THEN HandlerResult(S1, r2.err, <<>>)
             ELSE IF ~r3.ok THEN HandlerResult(S2, r3.err, <<>>)
             ELSE HandlerResult(S3, "Ok", <<>>)

execute_increase_allowance(S, blk, sender, spender, amount, expires) ==
    IF spender = sender
    THEN HandlerResult(S, "CannotSetOwnAccount", <<>>)
    ELSE LET r1 == increase_update_fn(may_load(S.ALLOWANCES, <<sender, spender>>), blk, amount, expires)
             S1 == [S EXCEPT !.ALLOWANCES = save(@, <<sender, spender>>, Val(r1))]
             r2 == increase_update_fn(may_load(S1.ALLOWANCES_SPENDER, <<spender, sender>>), blk, amount, expires)
             S2 == [S1 EXCEPT !.ALLOWANCES_SPENDER = save(@, <<spender, sender>>, Val(r2))]
         IN  IF ~r1.ok THEN HandlerResult(S, r1.err, <<>>)
             ELSE IF ~r2.ok THEN HandlerResult(S1, r2.err, <<>>)
             ELSE HandlerResult(S2, "Ok", <<>>)

(***************************************************************************)
(* execute_decrease_allowance                                              *)
(***************************************************************************)
reverse(t) == <<t[2], t[1]>>

\* Faulty variant: without an expires argument the expiration is reset.
decrease_partial_resets_expiry(S, blk, key, allowance, amount, expires) ==
    LET sub == checked_sub(allowance.allowance, amount)
        a2 == [allowance |-> Val(sub), expires |-> IF expires # None THEN expires[1] ELSE Never]
        S1 == [S EXCEPT !.ALLOWANCES = save(@, key, a2)]
        S2 == [S1 EXCEPT !.ALLOWANCES_SPENDER = save(@, reverse(key), a2)]
    IN  IF ~sub.ok THEN HandlerResult(S, sub.err, <<>>)
        ELSE IF expires # None /\ is_expired(expires[1], blk)
        THEN HandlerResult(S, "InvalidExpiration", <<>>)
        ELSE HandlerResult(S2, "Ok", <<>>)

\* Faulty variant: an expires argument that has already elapsed is accepted.
decrease_partial_accepts_elapsed(S, blk, key, allowance, amount, expires) ==
    LET sub == checked_sub(allowance.allowance, amount)
        a1 == [allowance EXCEPT !.allowance = Val(sub)]
        a2 == IF expires # None THEN [a1 EXCEPT !.expires = expires[1]] ELSE a1
        S1 == [S EXCEPT !.ALLOWANCES = save(@, key, a2)]
        S2 == [S1 EXCEPT !.ALLOWANCES_SPENDER = save(@, reverse(key), a2)]
    IN  IF ~sub.ok THEN HandlerResult(S, sub.err, <<>>)
        ELSE HandlerResult(S2, "Ok", <<>>)

\* The branch of execute_decrease_allowance taken when amount < allowance.allowance.
decrease_partial(S, blk, key, allowance, amount, expires) ==
    LET sub == checked_sub(allowance.allowance, amount)
        a1 == [allowance EXCEPT !.allowance = Val(sub)]
        a2 == IF expires # None THEN [a1 EXCEPT !.expires = expires[1]] ELSE a1
        S1 == [S EXCEPT !.ALLOWANCES = save(@, key, a2)]
        S2 == [S1 EXCEPT !.ALLOWANCES_SPENDER = save(@, reverse(key), a2)]
    IN  IF ~sub.ok THEN HandlerResult(S, sub.err, <<>>)
        ELSE IF expires # None /\ is_expired(expires[1], blk)
        THEN HandlerResult(S, "InvalidExpiration", <<>>)
        ELSE HandlerResult(S2, "Ok", <<>>)

\* Faulty variant: the reverse index is not cleaned up.
decrease_remove_forgets_reverse(S, key) ==
    HandlerResult([S EXCEPT !.ALLOWANCES = remove(@, key)], "Ok", <<>>)

\* The branch of execute_decrease_allowance taken otherwise.
decrease_remove(S, key) ==
    LET S1 == [S EXCEPT !.ALLOWANCES = remove(@, key)]
        S2 == [S1 EXCEPT !.ALLOWANCES_SPENDER = remove(@, reverse(key))]
    IN  HandlerResult(S2, "Ok", <<>>)

\* Faulty variant: a decrease by exactly the amount of the grant stores the grant with amount zero.
execute_decrease_allowance_stores_zero(S, blk, sender, spender, amount, expires) ==
    LET key == <<sender, spender>>
        loaded == may_load(S.ALLOWANCES, key)
    IN  IF spender = sender THEN HandlerResult(S, "CannotSetOwnAccount", <<>>)
        ELSE IF loaded = None THEN HandlerResult(S, "NotFound", <<>>)
        ELSE IF amount <= loaded[1].allowance
        THEN decrease_partial(S, blk, key, loaded[1], amount, expires)
        ELSE decrease_remove(S, key)

\* Faulty variant: the expires argument is validated before the amounts are compared.
execute_decrease_allowance_validates_expires(S, blk, sender, spender, amount, expires) ==
    LET key == <<sender, spender>>
        loaded == may_load(S.ALLOWANCES, key)
    IN  IF spender = sender THEN HandlerResult(S, "CannotSetOwnAccount", <<>>)
        ELSE IF loaded = None THEN HandlerResult(S, "NotFound", <<>>)
        ELSE IF expires # None /\ is_expired(expires[1], blk)
        THEN HandlerResult(S, "InvalidExpiration", <<>>)
        ELSE IF amount < loaded[1].allowance
        THEN decrease_partial(S, blk, key, loaded[1], amount, expires)
        ELSE decrease_remove(S, key)

execute_decrease_allowance(S, blk, sender, spender, amount, expires) ==
    LET key == <<sender, spender>>
        loaded == may_load(S.ALLOWANCES, key)
    IN  IF spender = sender THEN HandlerResult(S, "CannotSetOwnAccount", <<>>)
        ELSE IF loaded = None THEN HandlerResult(S, "NotFound", <<>>)
        ELSE IF amount < loaded[1].allowance
        THEN decrease_partial(S, blk, key, loaded[1], amount, expires)
        ELSE decrease_remove(S, key)

(***************************************************************************)
(* deduct_allowance                                                        *)
(***************************************************************************)
\* Faulty variant: the expiration of the grant is not looked at.
deduct_update_fn_ignores_expiry(current, blk, amount) ==
    IF current = None THEN Err("NoAllowance")
    ELSE LET sub == checked_sub(current[1].allowance, amount)
         IN  IF sub.ok THEN Ok([current[1] EXCEPT !.allowance = Val(sub)]) ELSE sub

\* Faulty variant: the amount is checked before the expiration.
deduct_update_fn_amount_first(current, blk, amount) ==
    IF current = None THEN Err("NoAllowance")
    ELSE LET sub == checked_sub(current[1].allowance, amount)
         IN  IF ~sub.ok THEN sub
             ELSE IF is_expired(current[1].expires, blk) THEN Err("Expired")
             ELSE Ok([current[1] EXCEPT !.allowance = Val(sub)])

\* Faulty variant: the deduction saturates the allowance at zero.
deduct_update_fn_saturating(current, blk, amount) ==
    IF current = None THEN Err("NoAllowance")
    ELSE IF is_expired(current[1].expires, blk) THEN Err("Expired")
    ELSE Ok([current[1] EXCEPT !.allowance = IF amount > @ THEN 0 ELSE @ - amount])

\* Faulty variant: a missing grant is taken for the default grant.
deduct_update_fn_defaults_missing(current, blk, amount) ==
    LET a == unwrap_or_default(current, AllowanceDefault)
        sub == checked_sub(a.allowance, amount)
    IN  IF is_expired(a.expires, blk) THEN Err("Expired")
        ELSE IF sub.ok THEN Ok([a EXCEPT !.allowance = Val(sub)]) ELSE sub

\* Faulty variant: the amount is compared with the allowance but not subtracted from it.
deduct_update_fn_keeps_amount(current, blk, amount) ==
    IF current = None THEN Err("NoAllowance")
    ELSE IF is_expired(current[1].expires, blk) THEN Err("Expired")
    ELSE LET sub == checked_sub(current[1].allowance, amount)
         IN  IF sub.ok THEN Ok(current[1]) ELSE sub

\* The update closure of deduct_allowance.
deduct_update_fn(current, blk, amount) ==
    IF current = None THEN Err("NoAllowance")
    ELSE IF is_expired(current[1].expires, blk) THEN Err("Expired")
    ELSE LET sub == checked_sub(current[1].allowance, amount)
         IN  IF sub.ok THEN Ok([current[1] EXCEPT !.allowance = Val(sub)]) ELSE sub

\* Faulty variant: a grant that the deduction brings to zero is removed from both maps.
deduct_allowance_deletes_at_zero(S, owner, spender, blk, amount) ==
    LET r1 == deduct_update_fn(may_load(S.ALLOWANCES, <<owner, spender>>), blk, amount)
        S2 == IF Val(r1).allowance = 0
              THEN [S EXCEPT !.ALLOWANCES = remove(@, <<owner, spender>>),
                             !.ALLOWANCES_SPENDER = remove(@, <<spender, owner>>)]
              ELSE [S EXCEPT !.ALLOWANCES = save(@, <<owner, spender>>, Val(r1)),
                             !.ALLOWANCES_SPENDER = save(@, <<spender, owner>>, Val(r1))]
    IN  IF ~r1.ok THEN [storage |-> S, res |-> r1]
        ELSE [storage |-> S2, res |-> r1]

\* Yields the storage as left and the Result<AllowanceResponse, ContractError>.
deduct_allowance(S, owner, spender, blk, amount) ==
    LET r1 == deduct_update_fn(may_load(S.ALLOWANCES, <<owner, spender>>), blk, amount)
        S1 == [S EXCEPT !.ALLOWANCES = save(@, <<owner, spender>>, Val(r1))]
        r2 == deduct_update_fn(may_load(S1.ALLOWANCES_SPENDER, <<spender, owner>>), blk, amount)
        S2 == [S1 EXCEPT !.ALLOWANCES_SPENDER = save(@, <<spender, owner>>, Val(r2))]
    IN  IF ~r1.ok THEN [storage |-> S, res |-> r1]
        ELSE IF ~r2.ok THEN [storage |-> S1, res |-> r2]
        ELSE [storage |-> S2, res |-> r2]

(***************************************************************************)
(* The balance and supply updates of the three spend operations            *)
(***************************************************************************)
\* Faulty variant: the debit saturates at zero instead of failing.
debit_balance_saturating(S, account, amount) ==
    LET b == unwrap_or_default(may_load(S.BALANCES, account), 0)
        v == IF amount > b THEN 0 ELSE b - amount
    IN  [storage |-> [S EXCEPT !.BALANCES = save(@, account, v)], res |-> Ok(v)]

\* BALANCES.update(owner, |balance| balance.unwrap_or_default().checked_sub(amount))
debit_balance(S, account, amount) ==
    LET r == checked_sub(unwrap_or_default(may_load(S.BALANCES, account), 0), amount)
    IN  [storage |-> IF r.ok THEN [S EXCEPT !.BALANCES = save(@, account, Val(r))] ELSE S,
         res |-> r]

\* Faulty variant: the credit overwrites the balance of the recipient.
credit_balance_overwrites(S, account, amount) ==
    [storage |-> [S EXCEPT !.BALANCES = save(@, account, amount)], res |-> Ok(amount)]

\* BALANCES.update(rcpt, |balance| balance.unwrap_or_default() + amount)
credit_balance(S, account, amount) ==
    LET r == add(unwrap_or_default(may_load(S.BALANCES, account), 0), amount)
    IN  [storage |-> IF r.ok THEN [S EXCEPT !.BALANCES = save(@, account, Val(r))] ELSE S,
         res |-> r]

\* Faulty variant: the total supply is left as it is.
reduce_total_supply_skipped(S, amount) ==
    [storage |-> S, res |-> Ok(S.TOKEN_INFO.total_supply)]

\* TOKEN_INFO.update(|meta| meta.total_supply = meta.total_supply.checked_sub(amount))
reduce_total_supply(S, amount) ==
    LET r == checked_sub(S.TOKEN_INFO.total_supply, amount)
    IN  [storage |-> IF r.ok THEN [S EXCEPT !.TOKEN_INFO.total_supply = Val(r)] ELSE S,
         res |-> r]

(***************************************************************************)
(* execute_transfer_from, execute_burn_from, execute_send_from             *)
(***************************************************************************)
\* Faulty variant: the error of the deduction is dropped and the balances are moved all the same.
execute_transfer_from_ignores_deduction(S, blk, sender, owner, recipient, amount) ==
    LET d == deduct_allowance(S, owner, sender, blk, amount)
        b1 == debit_balance(d.storage, owner, amount)
        b2 == credit_balance(b1.storage, recipient, amount)
    IN  IF ~b1.res.ok THEN HandlerResult(b1.storage, b1.res.err, <<>>)
        ELSE IF ~b2.res.ok THEN HandlerResult(b2.storage, b2.res.err, <<>>)
        ELSE HandlerResult(b2.storage, "Ok", <<>>)

\* Faulty variant: the credit is computed from the balance read before the debit.
execute_transfer_from_stale_credit(S, blk, sender, owner, recipient, amount) ==
    LET d == deduct_allowance(S, owner, sender, blk, amount)
        b1 == debit_balance(d.storage, owner, amount)
        stale == add(unwrap_or_default(may_load(d.storage.BALANCES, recipient), 0), amount)
        S2 == [b1.storage EXCEPT !.BALANCES = save(@, recipient, Val(stale))]
    IN  IF ~d.res.ok THEN HandlerResult(d.storage, d.res.err, <<>>)
        ELSE IF ~b1.res.ok THEN HandlerResult(b1.storage, b1.res.err, <<>>)
        ELSE IF ~stale.ok THEN HandlerResult(b1.storage, stale.err, <<>>)
        ELSE HandlerResult(S2, "Ok", <<>>)

execute_transfer_from(S, blk, sender, owner, recipient, amount) ==
    LET d == deduct_allowance(S, owner, sender, blk, amount)
        b1 == debit_balance(d.storage, owner, amount)
        b2 == credit_balance(b1.storage, recipient, amount)
    IN  IF ~d.res.ok THEN HandlerResult(d.storage, d.res.err, <<>>)
        ELSE IF ~b1.res.ok THEN HandlerResult(b1.storage, b1.res.err, <<>>)
        ELSE IF ~b2.res.ok THEN HandlerResult(b2.storage, b2.res.err, <<>>)
        ELSE HandlerResult(b2.storage, "Ok", <<>>)

execute_burn_from(S, blk, sender, owner, amount) ==
    LET d == deduct_allowance(S, owner, sender, blk, amount)
        b1 == debit_balance(d.storage, owner, amount)
        t == reduce_total_supply(b1.storage, amount)
    IN  IF ~d.res.ok THEN HandlerResult(d.storage, d.res.err, <<>>)
        ELSE IF ~b1.res.ok THEN HandlerResult(b1.storage, b1.res.err, <<>>)
        ELSE IF ~t.res.ok THEN HandlerResult(t.storage, t.res.err, <<>>)
        ELSE HandlerResult(t.storage, "Ok", <<>>)

\* Faulty variant: the message is added as a submessage whose error is caught by a reply.
receive_msg_reply_on_error(sender, contract, amount, msg) ==
    [contract_addr |-> contract,
     msg |-> [sender |-> sender, amount |-> amount, msg |-> msg],
     reply_on |-> "Error"]

\* Cw20ReceiveMsg { sender, amount, msg }.into_cosmos_msg(contract), added to the
\* Response with add_message: a message without reply.
receive_msg(sender, contract, amount, msg) ==
    [contract_addr |-> contract,
     msg |-> [sender |-> sender, amount |-> amount, msg |-> msg],
     reply_on |-> "Never"]

\* Faulty variant: the message names the owner of the funds as its sender.
execute_send_from_names_owner(S, blk, sender, owner, contract, amount, msg) ==
    LET d == deduct_allowance(S, owner, sender, blk, amount)
        b1 == debit_balance(d.storage, owner, amount)
        b2 == credit_balance(b1.storage, contract, amount)
    IN  IF ~d.res.ok THEN HandlerResult(d.storage, d.res.err, <<>>)
        ELSE IF ~b1.res.ok THEN HandlerResult(b1.storage, b1.res.err, <<>>)
        ELSE IF ~b2.res.ok THEN HandlerResult(b2.storage, b2.res.err, <<>>)
        ELSE HandlerResult(b2.storage, "Ok", <<receive_msg(owner, contract, amount, msg)>>)

execute_send_from(S, blk, sender, owner, contract, amount, msg) ==
    LET d == deduct_allowance(S, owner, sender, blk, amount)
        b1 == debit_balance(d.storage, owner, amount)
        b2 == credit_balance(b1.storage, contract, amount)
    IN  IF ~d.res.ok THEN HandlerResult(d.storage, d.res.err, <<>>)
        ELSE IF ~b1.res.ok THEN HandlerResult(b1.storage, b1.res.err, <<>>)
        ELSE IF ~b2.res.ok THEN HandlerResult(b2.storage, b2.res.err, <<>>)
        ELSE HandlerResult(b2.storage, "Ok", <<receive_msg(sender, contract, amount, msg)>>)

\* Faulty variant: the grant is read from the reverse index under the key of the primary store.
query_allowance_reads_reverse_index(S, owner, spender) ==
    unwrap_or_default(may_load(S.ALLOWANCES_SPENDER, <<owner, spender>>), AllowanceDefault)

\* query_allowance
query_allowance(S, owner, spender) ==
    unwrap_or_default(may_load(S.ALLOWANCES, <<owner, spender>>), AllowanceDefault)

(***************************************************************************)
(* The execution environment: one transaction per call.  The writes of the *)
(* handler are kept only when the handler returned Ok and every message of *)
(* its Response was handled without error by the contract it is addressed  *)
(* to (received tells whether it was: there is a choice only when a        *)
(* message was dispatched); a message with reply_on Never that fails makes *)
(* the whole transaction fail.                                             *)
(***************************************************************************)
TxResult(h, received) ==
    IF h.result # "Ok" THEN h.result
    ELSE IF \E i \in 1..Len(h.messages) : h.messages[i].reply_on = "Never" /\ ~received
    THEN "SubMsgError"
    ELSE "Ok"

\* The ExecuteMsg of a call together with info.sender and env.block.  owner and
\* spender name the grant the call is about.
Call(op, sender, owner, spender, recipient, amount, expires, msg) ==
    [op |-> op, sender |-> sender, owner |-> owner, spender |-> spender,
     recipient |-> recipient, amount |-> amount, expires |-> expires, msg |-> msg,
     block |-> block]

NoAddr == "-"
NoMsg == "-"
\* No call is under observation.
NoCall ==
    [op |-> "-", sender |-> NoAddr, owner |-> NoAddr, spender |-> NoAddr, recipient |-> NoAddr,
     amount |-> 0, expires |-> <<>>, msg |-> NoMsg, block |-> [height |-> 0, time |-> 0]]
NoResponse == [result |-> "-", messages |-> <<>>, received |-> TRUE, data |-> <<>>]

\* History: the consecutive successful increase_allowance calls on one grant, with
\* the amount the grant had when the run began.  Any other call ends the run.
NoIncreases == [owner |-> "-", spender |-> "-", start |-> 0, amounts |-> <<>>]

IncreasesAfter(c, result) ==
    IF c.op = "increase_allowance" /\ result = "Ok"
    THEN IF increases.owner = c.owner /\ increases.spender = c.spender
         THEN [increases EXCEPT !.amounts = Append(@, c.amount)]
         ELSE [owner |-> c.owner, spender |-> c.spender,
               start |-> unwrap_or_default(may_load(ALLOWANCES, <<c.owner, c.spender>>),
                                           AllowanceDefault).allowance,
               amounts |-> <<c.amount>>]
    ELSE NoIncreases

\* The sums of the amounts granted and spent, after a call with this outcome.
NoTotals == [k \in Addr \X Addr |-> 0]

GrantedAfter(c, result) ==
    IF c.op = "increase_allowance" /\ result = "Ok"
    THEN [granted EXCEPT ![<<c.owner, c.spender>>] = @ + c.amount]
    ELSE granted

SpentAfter(c, result) ==
    IF c.op \in {"transfer_from", "burn_from", "send_from"} /\ result = "Ok"
    THEN [spent EXCEPT ![<<c.owner, c.spender>>] = @ + c.amount]
    ELSE spent

Transaction(c, handler, received) ==
    /\ call = NoCall
    /\ \E h \in {handler} : \E result \in {TxResult(h, received)} :
        /\ h.messages = <<>> => received
        /\ ops' = ops + 1
        /\ ALLOWANCES' = IF result = "Ok" THEN h.storage.ALLOWANCES ELSE ALLOWANCES
        /\ ALLOWANCES_SPENDER' = IF result = "Ok" THEN h.storage.ALLOWANCES_SPENDER ELSE ALLOWANCES_SPENDER
        /\ BALANCES' = IF result = "Ok" THEN h.storage.BALANCES ELSE BALANCES
        /\ TOKEN_INFO' = IF result = "Ok" THEN h.storage.TOKEN_INFO ELSE TOKEN_INFO
        /\ call' = c
        /\ response' = [result |-> result, messages |-> h.messages, received |-> received,
                        data |-> None]
        /\ before' = Storage
        /\ increases' = IncreasesAfter(c, result)
        /\ granted' = GrantedAfter(c, result)
        /\ spent' = SpentAfter(c, result)
        /\ UNCHANGED <<block, emptied, nft>>

\* No grant has been emptied.
NoEmptied == [key |-> <<NoAddr, NoAddr>>, how |-> "-", expires |-> Never]

\* The grant last emptied, once the last call is counted in: a successful decrease
\* that removed its grant or a successful spend that brought its grant to zero is
\* recorded with the expiration the grant had; any other change of the recorded
\* grant ends the record.
EmptiedAfter ==
    LET k == <<call.owner, call.spender>>
        had == k \in DOMAIN before.ALLOWANCES
        has == k \in DOMAIN ALLOWANCES
    IN  IF response.result # "Ok"
           \/ call.op \notin {"increase_allowance", "decrease_allowance", "transfer_from",
                               "burn_from", "send_from"}
        THEN emptied
        ELSE IF call.op = "decrease_allowance" /\ had /\ ~has
        THEN [key |-> k, how |-> "decrease", expires |-> before.ALLOWANCES[k].expires]
        ELSE IF /\ call.op \in {"transfer_from", "burn_from", "send_from"}
                /\ before.ALLOWANCES[k].allowance > 0 /\ ALLOWANCES[k].allowance = 0
        THEN [key |-> k, how |-> "spend", expires |-> before.ALLOWANCES[k].expires]
        ELSE IF emptied.key = k /\ (had # has \/ (has /\ ALLOWANCES[k] # before.ALLOWANCES[k]))
        THEN NoEmptied
        ELSE emptied

\* No royalty query has been made.
NoRoyalty == [token_id |-> "-", sale_price |-> 0, result |-> "-", data |-> <<>>]

Init ==
    /\ ALLOWANCES = EmptyMap
    /\ ALLOWANCES_SPENDER = EmptyMap
    /\ BALANCES = [a \in {"addr0001"} |-> InitBalance]
    /\ TOKEN_INFO = [total_supply |-> InitBalance]
    /\ block = BlockAt(1)
    /\ call = Call("instantiate", "creator", NoAddr, NoAddr, NoAddr, InitBalance, None, NoMsg)
    /\ response = [result |-> "Ok", messages |-> <<>>, received |-> TRUE, data |-> None]
    /\ before = Storage
    /\ increases = NoIncreases
    /\ ops = 0
    /\ granted = NoTotals
    /\ spent = NoTotals
    /\ emptied = NoEmptied
    /\ tokens = EmptyMap
    /\ royalty = NoRoyalty

IncreaseAllowance(sender, spender, amount, expires) ==
    /\ ops < MaxOps
    /\ Transaction(Call("increase_allowance", sender, sender, spender, NoAddr, amount, expires, NoMsg),
                   execute_increase_allowance(Storage, block, sender, spender, amount, expires), TRUE)

DecreaseAllowance(sender, spender, amount, expires) ==
    /\ ops < MaxOps
    /\ Transaction(Call("decrease_allowance", sender, sender, spender, NoAddr, amount, expires, NoMsg),
                   execute_decrease_allowance(Storage, block, sender, spender, amount, expires), TRUE)

TransferFrom(sender, owner, recipient, amount) ==
    /\ ops < MaxOps
    /\ Transaction(Call("transfer_from", sender, owner, sender, recipient, amount, None, NoMsg),
                   execute_transfer_from(Storage, block, sender, owner, recipient, amount), TRUE)

BurnFrom(sender, owner, amount) ==
    /\ ops < MaxOps
    /\ Transaction(Call("burn_from", sender, owner, sender, NoAddr, amount, None, NoMsg),
                   execute_burn_from(Storage, block, sender, owner, amount), TRUE)

SendFrom(sender, owner, contract, amount, msg, received) ==
    /\ ops < MaxOps
    /\ Transaction(Call("send_from", sender, owner, sender, contract, amount, None, msg),
                   execute_send_from(Storage, block, sender, owner, contract, amount, msg), received)

\* QueryMsg::Allowance { owner, spender }.  A query is not a transaction: it is
\* handed the storage read-only (Deps) and returns a value.
QueryAllowance(owner, spender) ==
    /\ ops < MaxOps
    /\ call = NoCall
    /\ ops' = ops + 1
    /\ call' = Call("allowance", NoAddr, owner, spender, NoAddr, 0, None, NoMsg)
    /\ response' = [result |-> "Ok", messages |-> <<>>, received |-> TRUE,
                    data |-> Some(query_allowance(Storage, owner, spender))]
    /\ before' = Storage
    /\ increases' = NoIncreases
    /\ UNCHANGED <<ALLOWANCES, ALLOWANCES_SPENDER, BALANCES, TOKEN_INFO, block, totals, nft>>

\* The outcome of the last call has been observed: the record of the call is
\* dropped, and the next call can be made.
Observed ==
    /\ call # NoCall
    /\ call' = NoCall
    /\ response' = NoResponse
    /\ before' = Storage
    /\ emptied' = EmptiedAfter
    /\ UNCHANGED <<ALLOWANCES, ALLOWANCES_SPENDER, BALANCES, TOKEN_INFO, block, increases, ops,
                   granted, spent, nft>>

\* Faulty variant: the grants that have expired at the new block are dropped from
\* both indices.
NextBlock_prunes_expired ==
    /\ block.height < MaxHeight
    /\ block' = BlockAt(block.height + 1)
    /\ ALLOWANCES' = [k \in {x \in DOMAIN ALLOWANCES : ~is_expired(ALLOWANCES[x].expires, block')}
                         |-> ALLOWANCES[k]]
    /\ ALLOWANCES_SPENDER' =
          [k \in {x \in DOMAIN ALLOWANCES_SPENDER : ~is_expired(ALLOWANCES_SPENDER[x].expires, block')}
              |-> ALLOWANCES_SPENDER[k]]
    /\ UNCHANGED <<BALANCES, TOKEN_INFO, call, response, before, increases, ops, totals, nft>>

\* The chain produces the next block.
NextBlock ==
    /\ block.height < MaxHeight
    /\ block' = BlockAt(block.height + 1)
    /\ UNCHANGED <<ALLOWANCES, ALLOWANCES_SPENDER, BALANCES, TOKEN_INFO, call, response, before,
                   increases, ops, totals, nft>>

Next ==
    \/ \E sender \in Parties, spender \in Parties, amount \in Amounts, expires \in OptExpirations :
          IncreaseAllowance(sender, spender, amount, expires)
    \/ \E sender \in Parties, spender \in Parties, amount \in Amounts, expires \in OptExpirations :
          DecreaseAllowance(sender, spender, amount, expires)
    \/ \E sender \in Parties, owner \in Parties, recipient \in Recipients, amount \in Amounts :
          TransferFrom(sender, owner, recipient, amount)
    \/ \E sender \in Parties, owner \in Parties, amount \in Amounts :
          BurnFrom(sender, owner, amount)
    \/ \E sender \in Parties, owner \in Parties, contract \in Recipients, amount \in Amounts,
          msg \in Payloads, received \in BOOLEAN :
          SendFrom(sender, owner, contract, amount, msg, received)
    \/ \E owner \in Parties, spender \in Parties :
          QueryAllowance(owner, spender)
    \/ Observed
    \/ NextBlock

Spec == Init /\ [][Next]_vars

(***************************************************************************)
(* A second selection of calls, for the properties that need three         *)
(* accounts: the two parties grant to every account, also to the third,    *)
(* and every account spends.  Transfers and sends go to the third account. *)
(***************************************************************************)
PairExpirations == {None, Some(AtHeight(MaxHeight))}

NextPairs ==
    \/ \E sender \in Parties, spender \in Addr, amount \in Amounts, expires \in PairExpirations :
          IncreaseAllowance(sender, spender, amount, expires)
    \/ \E sender \in Parties, spender \in Addr, amount \in Amounts, expires \in PairExpirations :
          DecreaseAllowance(sender, spender, amount, expires)
    \/ \E sender \in Addr, owner \in Parties, amount \in Amounts :
          TransferFrom(sender, owner, "addr0003", amount)
    \/ \E sender \in Addr, owner \in Parties, amount \in Amounts :
          BurnFrom(sender, owner, amount)
    \/ \E sender \in Addr, owner \in Parties, amount \in Amounts, received \in BOOLEAN :
          SendFrom(sender, owner, "addr0003", amount, "m1", received)
    \/ Observed
    \/ NextBlock

SpecPairs == Init /\ [][NextPairs]_vars

(***************************************************************************)
(* cw2981-royalties (contracts/cw2981-royalties/src/lib.rs): tokens are    *)
(* minted with a Metadata extension that names a royalty percentage and a  *)
(* payment address, and the RoyaltyInfo query computes the royalty owed on *)
(* a sale price.                                                           *)
(***************************************************************************)
\* Sale prices of the queries run over 0..MaxSalePrice.
MaxSalePrice == 100
SalePrices == 0..MaxSalePrice
TokenIds == {"Enterprise", "Voyager"}
Percentages == {0, 4, 10, 100}
Payees == {"jeanluc", "janeway"}

\* Metadata { royalty_percentage, royalty_payment_address, .. }
Metadata(percentage, address) ==
    [royalty_percentage |-> percentage, royalty_payment_address |-> address]

\* Faulty variant: the royalty is rounded up.
royalty_from_sale_price_rounds_up(sale_price, percentage) ==
    (sale_price * percentage + 99) \div 100

\* sale_price * percentage / 100, rounded down.
royalty_from_sale_price(sale_price, percentage) ==
    (sale_price * percentage) \div 100

\* query_royalties_info(deps, token_id, sale_price)
query_royalties_info(T, token_id, sale_price) ==
    IF token_id \notin DOMAIN T THEN Err("NotFound")
    ELSE Ok([address |-> T[token_id].royalty_payment_address,
             royalty_amount |-> royalty_from_sale_price(sale_price, T[token_id].royalty_percentage)])

\* ExecuteMsg::Mint(MintMsg { token_id, extension, .. }) of a token that is not yet minted.
Mint(token_id, percentage, address) ==
    /\ token_id \notin DOMAIN tokens
    /\ tokens' = save(tokens, token_id, Metadata(percentage, address))
    /\ UNCHANGED <<ALLOWANCES, ALLOWANCES_SPENDER, BALANCES, TOKEN_INFO, block, call, response,
                   before, increases, ops, totals, royalty>>

\* QueryMsg::Extension { msg: Cw2981QueryMsg::RoyaltyInfo { token_id, sale_price } }
RoyaltyInfo(token_id, sale_price) ==
    /\ \E r \in {query_royalties_info(tokens, token_id, sale_price)} :
          royalty' = [token_id |-> token_id, sale_price |-> sale_price, result |-> r.err,
                      data |-> r.val]
    /\ UNCHANGED <<ALLOWANCES, ALLOWANCES_SPENDER, BALANCES, TOKEN_INFO, block, call, response,
                   before, increases, ops, totals, tokens>>

NextRoyalties ==
    \/ \E token_id \in TokenIds, percentage \in Percentages, address \in Payees :
          Mint(token_id, percentage, address)
    \/ \E token_id \in TokenIds, sale_price \in SalePrices :
          RoyaltyInfo(token_id, sale_price)

SpecRoyalties == Init /\ [][NextRoyalties]_vars

(***************************************************************************)
(* Vocabulary of the properties.  They are state predicates over the last  *)
(* call, its outcome, the storage before it and the storage now.           *)
(***************************************************************************)
SpendOps == {"transfer_from", "burn_from", "send_from"}
IsSpend == call.op \in SpendOps
Succeeded == response.result = "Ok"
\* The last call failed and the storage is what it was before the call.
FailedWithoutTrace == response.result # "Ok" /\ Storage = before

Stored(m, k) == k \in DOMAIN m
BalanceOf(S, a) == unwrap_or_default(may_load(S.BALANCES, a), 0)
\* The grant of the last call, in the primary store, before the call and now.
GrantKey == <<call.owner, call.spender>>
GrantBefore == before.ALLOWANCES[GrantKey]
GrantNow == ALLOWANCES[GrantKey]
HadGrant == Stored(before.ALLOWANCES, GrantKey)
\* The expiration has elapsed at a block: AtHeight(h) with height >= h, AtTime(t)
\* with time >= t.
Elapsed(exp, blk) ==
    \/ exp.kind = "AtHeight" /\ blk.height >= exp.at
    \/ exp.kind = "AtTime" /\ blk.time >= exp.at
\* The grant of the last call is stored in both indices with this value.
GrantIs(v) ==
    /\ Stored(ALLOWANCES, GrantKey) /\ ALLOWANCES[GrantKey] = v
    /\ Stored(ALLOWANCES_SPENDER, reverse(GrantKey)) /\ ALLOWANCES_SPENDER[reverse(GrantKey)] = v
\* What the handler of the last spend call left in the storage it was given.
SpendHandler ==
    CASE call.op = "transfer_from" ->
             execute_transfer_from(before, call.block, call.sender, call.owner, call.recipient, call.amount)
      [] call.op = "burn_from" ->
             execute_burn_from(before, call.block, call.sender, call.owner, call.amount)
      [] call.op = "send_from" ->
             execute_send_from(before, call.block, call.sender, call.owner, call.recipient,
                               call.amount, call.msg)

(***************************************************************************)
(* C1.  The primary store and the reverse index mirror each other in every *)
(* reachable state: an entry is stored at (owner, spender) exactly when    *)
(* one is stored at (spender, owner), and the two hold the same amount and *)
(* the same expiration.                                                    *)
(***************************************************************************)
C1_IndicesMirror ==
    /\ DOMAIN ALLOWANCES_SPENDER = {reverse(k) : k \in DOMAIN ALLOWANCES}
    /\ \A k \in DOMAIN ALLOWANCES : ALLOWANCES_SPENDER[reverse(k)] = ALLOWANCES[k]

\* A decrease_allowance removed one of two stored grants.
C1_Witness ==
    /\ call.op = "decrease_allowance" /\ Succeeded
    /\ ~Stored(ALLOWANCES, GrantKey)
    /\ DOMAIN ALLOWANCES # {}

(***************************************************************************)
(* C2.  transfer_from, burn_from and send_from fail atomically: when the   *)
(* deduction of the allowance succeeds and the balance of the owner is     *)
(* smaller than the amount, the call fails with an overflow error; and     *)
(* whenever the call fails after the deduction succeeded, the allowance in *)
(* both indices, the balances and the total supply are what they were      *)
(* before the call.                                                        *)
(***************************************************************************)
DeductionSucceeds ==
    deduct_allowance(before, call.owner, call.sender, call.block, call.amount).res.ok

C2_SpendFailsAtomically ==
    (IsSpend /\ DeductionSucceeds)
        => /\ BalanceOf(before, call.owner) < call.amount => response.result = "Overflow"
           /\ ~Succeeded => Storage = before

\* The deduction had been written to both indices when the debit failed.
C2_Witness ==
    /\ IsSpend /\ DeductionSucceeds /\ BalanceOf(before, call.owner) < call.amount
    /\ response.result = "Overflow"
    /\ SpendHandler.storage.ALLOWANCES # before.ALLOWANCES
    /\ SpendHandler.storage.ALLOWANCES_SPENDER # before.ALLOWANCES_SPENDER

(***************************************************************************)
(* C3.  A spender cannot spend more than the grant: a spend of more than   *)
(* the amount of a stored grant that has not elapsed fails with an         *)
(* overflow error, and allowance, balances and total supply are unchanged. *)
(***************************************************************************)
C3_SpendAboveGrantFails ==
    (IsSpend /\ HadGrant /\ ~Elapsed(GrantBefore.expires, call.block)
            /\ call.amount > GrantBefore.allowance)
        => (response.result = "Overflow" /\ Storage = before)

\* The owner could have paid: it is the grant that stops the spend.
C3_Witness ==
    /\ IsSpend /\ HadGrant /\ ~Elapsed(GrantBefore.expires, call.block)
    /\ call.amount > GrantBefore.allowance
    /\ BalanceOf(before, call.owner) >= call.amount
    /\ response.result = "Overflow"

(***************************************************************************)
(* C4.  A successful transfer_from lowers the grant (owner, spender) by    *)
(* exactly the amount and leaves its expiration unchanged; when the        *)
(* recipient is not the owner it lowers the balance of the owner by        *)
(* exactly the amount and raises the balance of the recipient by exactly   *)
(* the amount; when the recipient is the owner, the debit and the credit   *)
(* cancel and the balance of the owner is unchanged.                       *)
(***************************************************************************)
GrantLoweredByAmount ==
    /\ HadGrant
    /\ GrantIs([allowance |-> GrantBefore.allowance - call.amount, expires |-> GrantBefore.expires])

C4_TransferFromMoves ==
    (call.op = "transfer_from" /\ Succeeded)
        => /\ GrantLoweredByAmount
           /\ call.recipient # call.owner =>
                 /\ BalanceOf(Storage, call.owner) = BalanceOf(before, call.owner) - call.amount
                 /\ BalanceOf(Storage, call.recipient) = BalanceOf(before, call.recipient) + call.amount
           /\ call.recipient = call.owner =>
                 BalanceOf(Storage, call.owner) = BalanceOf(before, call.owner)

\* C4 as stated: the balance of the owner is lowered and the balance of the
\* recipient is raised by exactly the amount, whoever the recipient is.
C4_AsStated ==
    (call.op = "transfer_from" /\ Succeeded)
        => /\ GrantLoweredByAmount
           /\ BalanceOf(Storage, call.owner) = BalanceOf(before, call.owner) - call.amount
           /\ BalanceOf(Storage, call.recipient) = BalanceOf(before, call.recipient) + call.amount

\* Part of a grant was transferred to a third account.
C4_Witness ==
    /\ call.op = "transfer_from" /\ Succeeded
    /\ call.recipient # call.owner
    /\ call.amount > 0
    /\ GrantBefore.allowance > call.amount

(***************************************************************************)
(* C5.  A successful burn_from lowers the balance of the owner, the total  *)
(* supply and the grant (owner, spender) by exactly the amount, and        *)
(* credits no account.                                                     *)
(***************************************************************************)
C5_BurnFromBurns ==
    (call.op = "burn_from" /\ Succeeded)
        => /\ GrantLoweredByAmount
           /\ BalanceOf(Storage, call.owner) = BalanceOf(before, call.owner) - call.amount
           /\ TOKEN_INFO.total_supply = before.TOKEN_INFO.total_supply - call.amount
           /\ \A a \in Addr \ {call.owner} : BalanceOf(Storage, a) = BalanceOf(before, a)

C5_Witness ==
    /\ call.op = "burn_from" /\ Succeeded
    /\ call.amount > 0
    /\ TOKEN_INFO.total_supply < before.TOKEN_INFO.total_supply

(***************************************************************************)
(* C6.  A successful send_from moves the amount from the balance of the    *)
(* owner to the balance of the contract, lowers the grant (owner, caller)  *)
(* by the amount and emits exactly one message, addressed to the contract, *)
(* whose sender is the caller and which carries the amount and the payload *)
(* of the call; a send_from whose handler fails emits no message.          *)
(***************************************************************************)
\* The balances after moving amount from one account to another.
Moved(balances, from, to, amount) ==
    LET debited == save(balances, from, unwrap_or_default(may_load(balances, from), 0) - amount)
    IN  save(debited, to, unwrap_or_default(may_load(debited, to), 0) + amount)

C6_SendFromNotifies ==
    call.op = "send_from"
        => /\ Succeeded =>
                 /\ GrantLoweredByAmount
                 /\ BALANCES = Moved(before.BALANCES, call.owner, call.recipient, call.amount)
                 /\ Len(response.messages) = 1
                 /\ response.messages[1].contract_addr = call.recipient
                 /\ response.messages[1].msg =
                        [sender |-> call.sender, amount |-> call.amount, msg |-> call.msg]
           /\ response.result \notin {"Ok", "SubMsgError"} => response.messages = <<>>

\* The caller is not the owner, and the payload is not the only one there is.
C6_Witness ==
    /\ call.op = "send_from" /\ Succeeded
    /\ call.sender # call.owner
    /\ call.amount > 0
    /\ call.msg = "m2"
    /\ response.messages[1].msg.sender = call.sender

(***************************************************************************)
(* C7.  When the receiving contract fails to handle the message of a       *)
(* send_from, the whole send_from is rolled back: the state after it is    *)
(* the state before it.                                                    *)
(***************************************************************************)
C7_ReceiverFailureRollsBack ==
    (call.op = "send_from" /\ ~response.received) => FailedWithoutTrace

\* The handler had changed allowance and balances when the receiver failed.
C7_Witness ==
    /\ call.op = "send_from" /\ ~response.received
    /\ response.result = "SubMsgError"
    /\ SpendHandler.result = "Ok"
    /\ SpendHandler.storage.ALLOWANCES # before.ALLOWANCES
    /\ SpendHandler.storage.BALANCES # before.BALANCES

(***************************************************************************)
(* C8.  A spend against a grant whose expiration has elapsed at the block  *)
(* of the call fails with Expired and leaves allowance, balances and total *)
(* supply unchanged; a grant that expires at the height after the block of *)
(* the call is not expired in it (a spend within the grant and the balance *)
(* succeeds), and is one block later.                                      *)
(***************************************************************************)
C8_ElapsedGrantIsExpired ==
    IsSpend /\ HadGrant
        => /\ Elapsed(GrantBefore.expires, call.block)
                 => (response.result = "Expired" /\ Storage = before)
           /\ GrantBefore.expires = AtHeight(call.block.height + 1)
                 => /\ response.result # "Expired"
                    /\ (/\ call.amount <= GrantBefore.allowance
                        /\ call.amount <= BalanceOf(before, call.owner)
                        /\ response.received) => Succeeded

\* The spend comes in the very block the grant names as its last height plus one.
C8_Witness ==
    /\ IsSpend /\ HadGrant
    /\ GrantBefore.expires = AtHeight(call.block.height)
    /\ call.amount > 0
    /\ call.amount <= GrantBefore.allowance
    /\ call.amount <= BalanceOf(before, call.owner)
    /\ response.result = "Expired"

(***************************************************************************)
(* C9.  The deduction checks the expiry before the amount: a spend against *)
(* an elapsed grant fails with Expired also when the amount is zero and    *)
(* when the amount is larger than the grant (not with an overflow error).  *)
(***************************************************************************)
C9_ExpiryCheckedBeforeAmount ==
    (/\ IsSpend /\ HadGrant
     /\ Elapsed(GrantBefore.expires, call.block)
     /\ (call.amount = 0 \/ call.amount > GrantBefore.allowance))
        => response.result = "Expired"

C9_Witness ==
    /\ IsSpend /\ HadGrant
    /\ Elapsed(GrantBefore.expires, call.block)
    /\ call.amount > GrantBefore.allowance
    /\ response.result = "Expired"

(***************************************************************************)
(* C10.  Increases accumulate: after two or more successful                *)
(* increase_allowance calls of one owner for one spender in a row, the     *)
(* amount of the grant is the amount it had before the first (zero when    *)
(* no grant was stored) plus the sum of the amounts of the calls.          *)
(***************************************************************************)
RECURSIVE SumSeq(_)
SumSeq(q) == IF q = <<>> THEN 0 ELSE q[1] + SumSeq(Tail(q))

C10_IncreasesAccumulate ==
    Len(increases.amounts) >= 2
        => query_allowance(Storage, increases.owner, increases.spender).allowance
               = increases.start + SumSeq(increases.amounts)

\* Two increases by different positive amounts.
C10_Witness ==
    /\ Len(increases.amounts) = 2
    /\ increases.amounts[1] > 0
    /\ increases.amounts[2] > 0
    /\ increases.amounts[1] # increases.amounts[2]
    /\ call.owner # call.spender

(***************************************************************************)
(* C11.  increase_allowance with an expires argument that has elapsed at   *)
(* the block of the call (AtHeight(h) with h <= height, h = height         *)
(* included; AtTime(t) with t <= time) fails with InvalidExpiration and    *)
(* changes neither index; an expires argument that has not elapsed         *)
(* (AtHeight(height + 1), a later AtTime) is accepted: the call fails only *)
(* if the sum exceeds the integer maximum.                                 *)
(***************************************************************************)
IsIncrease == call.op = "increase_allowance"
IsDecrease == call.op = "decrease_allowance"
\* The amount of the grant of the last call before the call; zero when none was stored.
AmountBefore == IF HadGrant THEN GrantBefore.allowance ELSE 0
ExpiresElapsed == call.expires # None /\ Elapsed(call.expires[1], call.block)

C11_ElapsedExpiresRejected ==
    (IsIncrease /\ call.sender # call.spender /\ call.expires # None)
        => /\ ExpiresElapsed => (response.result = "InvalidExpiration" /\ Storage = before)
           /\ ~ExpiresElapsed => response.result # "InvalidExpiration"
           /\ (~ExpiresElapsed /\ AmountBefore + call.amount <= MaxUint) => Succeeded

\* The expires argument names the height of the block of the call, and a grant is stored.
C11_Witness ==
    /\ IsIncrease /\ call.sender # call.spender
    /\ call.expires = Some(AtHeight(call.block.height))
    /\ call.amount > 0
    /\ HadGrant
    /\ response.result = "InvalidExpiration"

(***************************************************************************)
(* C12.  After a successful increase_allowance the expiration of the grant *)
(* is the expires argument when one is given, whatever the stored one was; *)
(* the stored expiration when none is given; Never when none is given and  *)
(* no grant was stored.                                                    *)
(***************************************************************************)
C12_IncreaseSetsExpiration ==
    (IsIncrease /\ Succeeded)
        => GrantIs([allowance |-> AmountBefore + call.amount,
                    expires |-> IF call.expires # None THEN call.expires[1]
                                ELSE IF HadGrant THEN GrantBefore.expires
                                ELSE Never])

\* An expiration by time is replaced by an expiration by height.
C12_Witness ==
    /\ IsIncrease /\ Succeeded
    /\ HadGrant /\ GrantBefore.expires.kind = "AtTime"
    /\ call.expires # None /\ call.expires[1].kind = "AtHeight"
    /\ GrantNow.expires = call.expires[1]

(***************************************************************************)
(* C13.  increase_allowance and decrease_allowance whose spender is the    *)
(* caller fail with CannotSetOwnAccount, for every amount and every        *)
(* expires argument, and the storage is unchanged.                         *)
(***************************************************************************)
C13_SelfAllowanceRejected ==
    ((IsIncrease \/ IsDecrease) /\ call.spender = call.sender)
        => (response.result = "CannotSetOwnAccount" /\ Storage = before)

\* The expires argument has elapsed: the comparison of the accounts comes first.
C13_Witness ==
    /\ IsIncrease /\ call.spender = call.sender
    /\ call.amount > 0
    /\ ExpiresElapsed
    /\ response.result = "CannotSetOwnAccount"

(***************************************************************************)
(* C14.  decrease_allowance by less than the amount of the grant, without  *)
(* an expires argument or with one that has not elapsed, succeeds and      *)
(* stores in both indices the grant with its amount lowered by the amount  *)
(* of the call and with the expires argument as its expiration when one is *)
(* given, its old expiration otherwise.                                    *)
(***************************************************************************)
PartialDecrease ==
    /\ IsDecrease /\ call.sender # call.spender
    /\ HadGrant /\ call.amount < GrantBefore.allowance

C14_PartialDecreaseStores ==
    (PartialDecrease /\ ~ExpiresElapsed)
        => /\ Succeeded
           /\ GrantIs([allowance |-> GrantBefore.allowance - call.amount,
                       expires |-> IF call.expires # None THEN call.expires[1]
                                   ELSE GrantBefore.expires])

\* A grant that expires at a height is lowered without an expires argument.
C14_Witness ==
    /\ PartialDecrease /\ call.expires = None
    /\ call.amount > 0
    /\ GrantBefore.expires.kind = "AtHeight"
    /\ Succeeded

(***************************************************************************)
(* C15.  decrease_allowance by less than the amount of the grant with an   *)
(* expires argument that has elapsed fails with InvalidExpiration, and the *)
(* grant keeps its amount and its expiration in both indices.              *)
(***************************************************************************)
C15_PartialDecreaseElapsedExpires ==
    (PartialDecrease /\ ExpiresElapsed)
        => /\ response.result = "InvalidExpiration"
           /\ GrantIs(GrantBefore)
           /\ Storage = before

C15_Witness ==
    /\ PartialDecrease /\ ExpiresElapsed
    /\ call.amount > 0
    /\ call.expires[1] # GrantBefore.expires
    /\ response.result = "InvalidExpiration"

(***************************************************************************)
(* C16.  decrease_allowance by the amount of the grant or more succeeds    *)
(* and removes the grant from both indices, so that the allowance reads as *)
(* amount 0 with expires Never; nothing else changes, whatever the expires *)
(* argument is: absent, valid or elapsed.                                  *)
(***************************************************************************)
\* The map m is the map old without the key k.
Removed(m, old, k) ==
    /\ DOMAIN m = (DOMAIN old) \ {k}
    /\ \A x \in DOMAIN m : m[x] = old[x]

C16_FullDecreaseDeletes ==
    (IsDecrease /\ call.sender # call.spender /\ HadGrant /\ call.amount >= GrantBefore.allowance)
        => /\ Succeeded
           /\ Removed(ALLOWANCES, before.ALLOWANCES, GrantKey)
           /\ Removed(ALLOWANCES_SPENDER, before.ALLOWANCES_SPENDER, reverse(GrantKey))
           /\ BALANCES = before.BALANCES
           /\ TOKEN_INFO = before.TOKEN_INFO
           /\ response.messages = <<>>
           /\ query_allowance(Storage, call.owner, call.spender) = [allowance |-> 0, expires |-> Never]

\* The amount overshoots the grant and the expires argument has elapsed.
C16_Witness ==
    /\ IsDecrease /\ HadGrant
    /\ GrantBefore.allowance > 0
    /\ call.amount > GrantBefore.allowance
    /\ ExpiresElapsed
    /\ Succeeded

(***************************************************************************)
(* C17.  decrease_allowance of an owner for another account when no grant  *)
(* is stored at (owner, spender) fails with NoAllowance and the storage is *)
(* unchanged.                                                              *)
(***************************************************************************)
C17_DecreaseWithoutGrant ==
    (IsDecrease /\ call.sender # call.spender /\ ~HadGrant)
        => (response.result = "NoAllowance" /\ Storage = before)

(***************************************************************************)
(* C18.  transfer_from, burn_from and send_from of a caller for whom no    *)
(* grant is stored at (owner, caller) fail with NoAllowance for every      *)
(* amount, zero included, and allowances, balances and total supply are    *)
(* unchanged.                                                              *)
(***************************************************************************)
C18_SpendWithoutGrantFails ==
    (IsSpend /\ ~HadGrant) => (response.result = "NoAllowance" /\ Storage = before)

\* A spend of nothing by another account than the owner.
C18_Witness ==
    /\ IsSpend /\ ~HadGrant
    /\ call.sender # call.owner
    /\ call.amount = 0
    /\ response.result = "NoAllowance"

(***************************************************************************)
(* C19.  increase_allowance whose amount added to the amount of the grant  *)
(* exceeds the maximum of the unsigned integer type fails with an overflow *)
(* error and leaves the grant unchanged in both indices.                   *)
(***************************************************************************)
C19_IncreaseOverflowFails ==
    (IsIncrease /\ call.sender # call.spender /\ ~ExpiresElapsed
            /\ AmountBefore + call.amount > MaxUint)
        => (response.result = "Overflow" /\ Storage = before)

(***************************************************************************)
(* C20.  The allowance query is a pure read: it succeeds for every owner   *)
(* and spender (the same account and an elapsed grant included), returns   *)
(* the grant stored in the primary store at (owner, spender), or amount 0  *)
(* with expires Never when none is stored, and changes no state.           *)
(***************************************************************************)
IsQuery == call.op = "allowance"

C20_QueryIsPureRead ==
    IsQuery
        => /\ Succeeded
           /\ Stored(ALLOWANCES, GrantKey) => response.data = <<ALLOWANCES[GrantKey]>>
           /\ ~Stored(ALLOWANCES, GrantKey) => response.data = <<[allowance |-> 0, expires |-> Never]>>
           /\ Storage = before

\* The query reads a grant that has elapsed.
C20_Witness ==
    /\ IsQuery
    /\ Stored(ALLOWANCES, GrantKey)
    /\ GrantNow.allowance > 0
    /\ Elapsed(GrantNow.expires, call.block)
    /\ response.data = <<GrantNow>>

(***************************************************************************)
(* C21.  Grants are independent per ordered pair: an increase_allowance, a *)
(* decrease_allowance or a spend about the grant (O, S) leaves the entry   *)
(* of every other pair as it was, in both indices: not stored, or stored   *)
(* with the same amount and expiration.  The other pairs include (O, S2),  *)
(* (S, S2) and the opposite (S, O).                                        *)
(***************************************************************************)
Pairs == Addr \X Addr
TouchesGrant == IsIncrease \/ IsDecrease \/ IsSpend
\* The key k has in the map m the entry it has in the map old, or none in both.
SameEntry(m, old, k) ==
    /\ Stored(m, k) <=> Stored(old, k)
    /\ Stored(m, k) => m[k] = old[k]

C21_GrantsIndependent ==
    TouchesGrant
        => \A k \in Pairs \ {GrantKey} :
              /\ SameEntry(ALLOWANCES, before.ALLOWANCES, k)
              /\ SameEntry(ALLOWANCES_SPENDER, before.ALLOWANCES_SPENDER, reverse(k))

\* The grant (O, S) changes while (O, S2) and (S, O) are stored.
C21_Witness ==
    /\ TouchesGrant /\ Succeeded
    /\ call.owner # call.spender
    /\ ~SameEntry(ALLOWANCES, before.ALLOWANCES, GrantKey)
    /\ Stored(ALLOWANCES, <<call.spender, call.owner>>)
    /\ \E s2 \in Addr \ {call.owner, call.spender} : Stored(ALLOWANCES, <<call.owner, s2>>)

(***************************************************************************)
(* C22.  As stated: in every reachable state no entry stored in either     *)
(* index equals the default value (amount 0 with expires Never).           *)
(***************************************************************************)
C22_AsStated ==
    /\ \A k \in DOMAIN ALLOWANCES : ALLOWANCES[k] # [allowance |-> 0, expires |-> Never]
    /\ \A k \in DOMAIN ALLOWANCES_SPENDER :
          ALLOWANCES_SPENDER[k] # [allowance |-> 0, expires |-> Never]

(***************************************************************************)
(* C22, amended.  decrease_allowance never stores a grant with amount      *)
(* zero: after a successful decrease the grant is removed from both        *)
(* indices or stored with a positive amount.  An entry with amount zero    *)
(* comes to be stored only by an increase_allowance with amount 0 or by a  *)
(* spend of the whole amount of the grant.                                 *)
(***************************************************************************)
AmountAt(m, k) == IF Stored(m, k) THEN m[k].allowance ELSE 0
\* The key k has an entry with amount zero now and had none, or a positive one, before.
BecameZero(k) ==
    /\ Stored(ALLOWANCES, k) /\ ALLOWANCES[k].allowance = 0
    /\ ~Stored(before.ALLOWANCES, k) \/ before.ALLOWANCES[k].allowance > 0

C22_ZeroOnlyByIncreaseOrSpend ==
    /\ (IsDecrease /\ Succeeded)
          => \/ ~Stored(ALLOWANCES, GrantKey) /\ ~Stored(ALLOWANCES_SPENDER, reverse(GrantKey))
             \/ GrantIs(GrantNow) /\ GrantNow.allowance > 0
    /\ \A k \in Pairs :
          BecameZero(k)
              => /\ k = GrantKey
                 /\ \/ IsIncrease /\ call.amount = 0 /\ ~HadGrant
                    \/ IsSpend /\ HadGrant /\ call.amount = GrantBefore.allowance

\* A decrease by exactly the amount of the grant.
C22_Witness ==
    /\ IsDecrease /\ Succeeded /\ HadGrant
    /\ GrantBefore.allowance > 0
    /\ call.amount = GrantBefore.allowance
    /\ ~Stored(ALLOWANCES, GrantKey)

(***************************************************************************)
(* C23.  A successful spend of the whole amount of a grant leaves the      *)
(* grant stored in both indices with amount 0 and its expiration           *)
(* unchanged, and such a spend succeeds when the grant has not elapsed,    *)
(* the owner has the balance and the receiver accepts.  A deduction never  *)
(* removes an entry: a spend or a decrease_allowance on a stored grant,    *)
(* also one with amount 0, does not fail for want of a grant.              *)
(***************************************************************************)
SpendsWholeGrant == IsSpend /\ HadGrant /\ call.amount = GrantBefore.allowance

C23_WholeGrantSpendKeepsEntry ==
    /\ (SpendsWholeGrant /\ Succeeded)
          => GrantIs([allowance |-> 0, expires |-> GrantBefore.expires])
    /\ (/\ SpendsWholeGrant /\ ~Elapsed(GrantBefore.expires, call.block)
        /\ BalanceOf(before, call.owner) >= call.amount /\ response.received)
          => Succeeded
    /\ (IsSpend /\ Succeeded) => Stored(ALLOWANCES, GrantKey)
    /\ (IsSpend /\ HadGrant) => response.result # "NoAllowance"
    /\ (IsDecrease /\ HadGrant /\ call.sender # call.spender)
          => response.result \notin {"NoAllowance", "NotFound"}

\* A spend of nothing from a grant that a spend has emptied: the owner has paid.
C23_Witness ==
    /\ IsSpend /\ HadGrant /\ Succeeded
    /\ GrantBefore.allowance = 0
    /\ call.amount = 0
    /\ BalanceOf(before, call.owner) < InitBalance
    /\ call.owner = "addr0001"

(***************************************************************************)
(* C24.  The royalty query for a token minted with percentage p and        *)
(* payment address a returns the address a and the amount                  *)
(* floor(sale_price * p / 100): the largest integer r with                 *)
(* 100 * r <= sale_price * p.                                              *)
(***************************************************************************)
C24_RoyaltyRoundsDown ==
    royalty.result = "Ok"
        => LET t == tokens[royalty.token_id]
               r == royalty.data[1]
           IN  /\ r.address = t.royalty_payment_address
               /\ 100 * r.royalty_amount <= royalty.sale_price * t.royalty_percentage
               /\ royalty.sale_price * t.royalty_percentage < 100 * (r.royalty_amount + 1)

\* A sale price of 43 at 4 per cent: 1.72 is rounded down to 1.
C24_Witness ==
    /\ royalty.result = "Ok"
    /\ royalty.sale_price = 43
    /\ tokens[royalty.token_id].royalty_percentage = 4
    /\ royalty.data[1].royalty_amount = 1

(***************************************************************************)
(* C25.  The deduction is the authorization gate of the three spend        *)
(* operations: the handler writes to the balances and to the total supply  *)
(* only after the deduction on (owner, caller) has succeeded, and a call   *)
(* changes a balance or the total supply only if at its start the caller   *)
(* held a stored grant of the owner that had not elapsed and whose amount  *)
(* was at least the amount of the call, hence at least the amount by which *)
(* the balance of the owner went down.                                     *)
(***************************************************************************)
C25_DeductionGatesBalances ==
    IsSpend
        => /\ (\/ SpendHandler.storage.BALANCES # before.BALANCES
               \/ SpendHandler.storage.TOKEN_INFO # before.TOKEN_INFO) => DeductionSucceeds
           /\ (BALANCES # before.BALANCES \/ TOKEN_INFO # before.TOKEN_INFO)
                 => /\ HadGrant
                    /\ ~Elapsed(GrantBefore.expires, call.block)
                    /\ GrantBefore.allowance >= call.amount
                    /\ GrantBefore.allowance >= BalanceOf(before, call.owner) - BalanceOf(Storage, call.owner)

\* A spend of part of a grant lowers the balance of the owner by the amount spent.
C25_Witness ==
    /\ IsSpend /\ Succeeded /\ HadGrant
    /\ call.amount > 0
    /\ GrantBefore.allowance > call.amount
    /\ BalanceOf(Storage, call.owner) = BalanceOf(before, call.owner) - call.amount

(***************************************************************************)
(* C26.  For every pair (O, S) the total that S has spent from O through   *)
(* successful transfer_from, burn_from and send_from calls, plus the       *)
(* amount of the grant now stored for (O, S), is at most the total that O  *)
(* has granted to S through successful increase_allowance calls; so the    *)
(* total spent never exceeds the total granted.                            *)
(***************************************************************************)
C26_SpentWithinGranted ==
    \A k \in Pairs :
        /\ spent[k] + AmountAt(ALLOWANCES, k) <= granted[k]
        /\ spent[k] + AmountAt(ALLOWANCES_SPENDER, reverse(k)) <= granted[k]
        /\ spent[k] <= granted[k]

\* The whole of what was granted has been spent, in more than one spend.
C26_Witness ==
    /\ IsSpend /\ Succeeded
    /\ call.amount > 0
    /\ spent[GrantKey] > call.amount
    /\ spent[GrantKey] = granted[GrantKey]

(***************************************************************************)
(* C27.  The total supply equals the sum of all balances in every          *)
(* reachable state.  A transfer_from or a send_from leaves the total       *)
(* supply unchanged, also when the recipient is the owner; a successful    *)
(* burn_from lowers the total supply by its amount; and a burn_from whose  *)
(* deduction and debit of the owner succeed does not fail at the decrement *)
(* of the total supply.                                                    *)
(***************************************************************************)
RECURSIVE SumOver(_, _)
\* The sum of the balances of the accounts in the set.
SumOver(balances, accounts) ==
    IF accounts = {} THEN 0
    ELSE LET a == CHOOSE x \in accounts : TRUE
         IN  balances[a] + SumOver(balances, accounts \ {a})
SumOfBalances(balances) == SumOver(balances, DOMAIN balances)

C27_SupplyIsSumOfBalances ==
    /\ TOKEN_INFO.total_supply = SumOfBalances(BALANCES)
    /\ (call.op \in {"transfer_from", "send_from"})
          => /\ TOKEN_INFO = before.TOKEN_INFO
             /\ SumOfBalances(BALANCES) = SumOfBalances(before.BALANCES)
    /\ (call.op = "burn_from" /\ Succeeded)
          => /\ TOKEN_INFO.total_supply = before.TOKEN_INFO.total_supply - call.amount
             /\ SumOfBalances(BALANCES) = SumOfBalances(before.BALANCES) - call.amount
    /\ (/\ call.op = "burn_from" /\ DeductionSucceeds
        /\ BalanceOf(before, call.owner) >= call.amount)
          => Succeeded

\* A burn of a positive amount lowers the sum of the balances and the total supply.
C27_Witness ==
    /\ call.op = "burn_from" /\ Succeeded
    /\ call.amount > 0
    /\ TOKEN_INFO.total_supply = SumOfBalances(BALANCES)
    /\ SumOfBalances(BALANCES) < SumOfBalances(before.BALANCES)

(***************************************************************************)
(* C28.  No entry is stored, in either index, under a key whose owner is   *)
(* its spender.  A transfer_from, burn_from or send_from whose caller      *)
(* names itself as owner fails with NoAllowance, and the allowance query   *)
(* for (a, a) succeeds and returns the default value.                      *)
(***************************************************************************)
C28_NoSelfGrant ==
    /\ \A k \in DOMAIN ALLOWANCES \cup DOMAIN ALLOWANCES_SPENDER : k[1] # k[2]
    /\ (IsSpend /\ call.sender = call.owner) => response.result = "NoAllowance"
    /\ (IsQuery /\ call.owner = call.spender)
          => /\ Succeeded
             /\ response.data = <<[allowance |-> 0, expires |-> Never]>>

\* A spend from its own balance by an account that has a balance and has made grants.
C28_Witness ==
    /\ IsSpend /\ call.sender = call.owner
    /\ BalanceOf(before, call.owner) >= call.amount
    /\ call.amount > 0
    /\ \E k \in DOMAIN before.ALLOWANCES : k[1] = call.owner

(***************************************************************************)
(* C29.  Only the owner enlarges or re-dates a grant.  For every pair      *)
(* (O, S): the amount of the grant grows, or a grant comes to be stored,   *)
(* only in an increase_allowance call by O for S; its expiration changes   *)
(* only in an increase_allowance or decrease_allowance call by O for S; a  *)
(* call by any other account leaves the grant stored with the expiration   *)
(* it had, and lowers its amount only when it is a spend by S from O.      *)
(***************************************************************************)
ExpiresAt(m, k) == m[k].expires
\* The last call is an increase or a decrease by the owner of the pair k for its spender.
OwnerChanges(k) ==
    /\ IsIncrease \/ IsDecrease
    /\ call.sender = k[1] /\ call.owner = k[1] /\ call.spender = k[2]

C29_OnlyOwnerEnlargesOrRedates ==
    \A k \in Pairs :
        LET had == Stored(before.ALLOWANCES, k)
            has == Stored(ALLOWANCES, k)
        IN  /\ (AmountAt(ALLOWANCES, k) > AmountAt(before.ALLOWANCES, k) \/ (has /\ ~had))
                  => IsIncrease /\ OwnerChanges(k)
            /\ (had /\ has /\ ExpiresAt(ALLOWANCES, k) # ExpiresAt(before.ALLOWANCES, k))
                  => OwnerChanges(k)
            /\ (had /\ ~has) => IsDecrease /\ OwnerChanges(k)
            /\ (call.sender # k[1] /\ AmountAt(ALLOWANCES, k) < AmountAt(before.ALLOWANCES, k))
                  => IsSpend /\ call.sender = k[2] /\ call.owner = k[1]

\* The spender of a stored grant increases its own grant to the owner: the grant of
\* the owner stays as it was.
C29_Witness ==
    /\ IsIncrease /\ Succeeded
    /\ call.amount > 0
    /\ Stored(before.ALLOWANCES, <<call.spender, call.sender>>)
    /\ ALLOWANCES[<<call.spender, call.sender>>] = before.ALLOWANCES[<<call.spender, call.sender>>]

(***************************************************************************)
(* C30.  Block height and time never go back, and an expired grant stays   *)
(* unspendable: a spend from a grant whose expiration has elapsed fails    *)
(* with Expired; a grant whose expiration has elapsed keeps that           *)
(* expiration unless it is removed, or its owner gives a new expires that  *)
(* has not elapsed in an increase_allowance or a partial                   *)
(* decrease_allowance; and an increase_allowance without expires on an     *)
(* elapsed grant succeeds, raises the amount and leaves the expiration.    *)
(***************************************************************************)
C30_ExpiredStaysExpired ==
    /\ block.height >= call.block.height /\ block.time >= call.block.time
    /\ (IsSpend /\ HadGrant /\ Elapsed(GrantBefore.expires, call.block))
          => response.result = "Expired" /\ Storage = before
    /\ \A k \in DOMAIN before.ALLOWANCES :
          Elapsed(before.ALLOWANCES[k].expires, call.block)
              => \/ ~Stored(ALLOWANCES, k)
                 \/ ALLOWANCES[k].expires = before.ALLOWANCES[k].expires
                 \/ /\ OwnerChanges(k) /\ Succeeded
                    /\ call.expires # None
                    /\ ~Elapsed(call.expires[1], call.block)
                    /\ ALLOWANCES[k].expires = call.expires[1]
    /\ (/\ IsIncrease /\ HadGrant /\ call.expires = None
        /\ Elapsed(GrantBefore.expires, call.block)
        /\ GrantBefore.allowance + call.amount <= MaxUint)
          => /\ Succeeded
             /\ GrantIs([allowance |-> GrantBefore.allowance + call.amount,
                         expires |-> GrantBefore.expires])

\* An increase without expires on a grant that has elapsed: more is granted, and the
\* grant is still elapsed at the current block.
C30_Witness ==
    /\ IsIncrease /\ Succeeded /\ HadGrant
    /\ call.expires = None
    /\ call.amount > 0
    /\ Elapsed(GrantBefore.expires, call.block)
    /\ GrantNow.allowance > GrantBefore.allowance
    /\ Elapsed(GrantNow.expires, block)

(***************************************************************************)
(* C31.  Expiration is never a deletion trigger.  The indices change only  *)
(* in a successful call: while no call is recorded, after a query and      *)
(* after a failed call, whatever the number of blocks produced since, both *)
(* indices are what they were.  A grant whose expiration has elapsed is    *)
(* returned by the allowance query with its amount and expiration, and is  *)
(* left stored as it was by the spend that fails on it.  A                 *)
(* decrease_allowance on a grant whose expiration has elapsed is treated   *)
(* as on any other grant: it never fails with Expired, and it fails only   *)
(* when it is partial and its expires argument has elapsed.                *)
(***************************************************************************)
GrantElapsed == HadGrant /\ Elapsed(GrantBefore.expires, call.block)

C31_ExpirationNeverDeletes ==
    /\ (call = NoCall \/ call.op = "instantiate" \/ IsQuery \/ ~Succeeded)
          => /\ ALLOWANCES = before.ALLOWANCES
             /\ ALLOWANCES_SPENDER = before.ALLOWANCES_SPENDER
    /\ \A k \in DOMAIN ALLOWANCES \cup DOMAIN before.ALLOWANCES :
          (Stored(before.ALLOWANCES, k) /\ ~Stored(ALLOWANCES, k))
              => IsDecrease /\ Succeeded /\ k = GrantKey
    /\ (IsQuery /\ GrantElapsed) => Succeeded /\ response.data = Some(GrantBefore)
    /\ (IsSpend /\ GrantElapsed) => GrantIs(GrantBefore)
    /\ (IsDecrease /\ GrantElapsed /\ call.sender # call.spender)
          => /\ response.result # "Expired"
             /\ Succeeded <=> ~(PartialDecrease /\ ExpiresElapsed)

\* A grant made to expire at the next height is lowered, without an expires
\* argument, once that height has come: it is stored, lowered, and still elapsed.
C31_Witness ==
    /\ PartialDecrease /\ Succeeded
    /\ call.expires = None
    /\ call.amount > 0
    /\ call.block.height > 1
    /\ GrantBefore.expires = AtHeight(call.block.height)
    /\ GrantIs([allowance |-> GrantBefore.allowance - call.amount, expires |-> GrantBefore.expires])

(***************************************************************************)
(* C32.  How a grant was emptied decides the expiration of the next grant. *)
(* After a decrease_allowance that removed a grant with expiration E, a    *)
(* successful increase_allowance without an expires argument finds no      *)
(* grant and stores its amount with expires Never; after a spend that      *)
(* brought a grant with expiration E to amount zero, it finds the grant    *)
(* and stores its amount with expiration E.                                *)
(***************************************************************************)
C32_EmptiedGrantExpiration ==
    (IsIncrease /\ Succeeded /\ call.expires = None /\ emptied.key = GrantKey)
        => /\ emptied.how = "decrease"
                 => /\ ~HadGrant
                    /\ GrantIs([allowance |-> call.amount, expires |-> Never])
           /\ emptied.how = "spend"
                 => /\ HadGrant /\ GrantBefore.allowance = 0
                    /\ GrantIs([allowance |-> call.amount, expires |-> emptied.expires])

\* A grant that expires has been spent whole, and more is granted without an
\* expires argument: the new grant expires as the old one did.
C32_Witness ==
    /\ IsIncrease /\ Succeeded
    /\ call.expires = None
    /\ call.amount > 0
    /\ emptied = [key |-> GrantKey, how |-> "spend", expires |-> GrantNow.expires]
    /\ GrantNow.expires # Never

(***************************************************************************)
(* C33.  increase_allowance and decrease_allowance, whether they succeed   *)
(* or fail, change no balance and not the total supply and emit no         *)
(* message, neither in the storage the handler leaves nor after the call;  *)
(* of the two indices they change at most the entry of the grant (caller,  *)
(* spender), and a call that fails changes nothing.                        *)
(***************************************************************************)
\* What the handler of the last increase or decrease left in the storage it was given.
GrantHandler ==
    IF IsIncrease
    THEN execute_increase_allowance(before, call.block, call.sender, call.spender, call.amount,
                                    call.expires)
    ELSE execute_decrease_allowance(before, call.block, call.sender, call.spender, call.amount,
                                    call.expires)

C33_GrantCallsTouchOnlyTheGrant ==
    (IsIncrease \/ IsDecrease)
        => /\ BALANCES = before.BALANCES
           /\ TOKEN_INFO = before.TOKEN_INFO
           /\ response.messages = <<>>
           /\ GrantHandler.storage.BALANCES = before.BALANCES
           /\ GrantHandler.storage.TOKEN_INFO = before.TOKEN_INFO
           /\ GrantHandler.messages = <<>>
           /\ \A k \in Pairs \ {<<call.sender, call.spender>>} :
                 /\ SameEntry(ALLOWANCES, before.ALLOWANCES, k)
                 /\ SameEntry(ALLOWANCES_SPENDER, before.ALLOWANCES_SPENDER, reverse(k))
           /\ ~Succeeded => Storage = before

\* A grant is made by an owner that has the balance for it, while another grant is stored.
C33_Witness ==
    /\ IsIncrease /\ Succeeded
    /\ call.amount > 0
    /\ ~SameEntry(ALLOWANCES, before.ALLOWANCES, <<call.sender, call.spender>>)
    /\ BalanceOf(Storage, call.sender) >= call.amount
    /\ \E k \in DOMAIN ALLOWANCES : k # GrantKey

====
